---------------------------- MODULE Spec2Model ----------------------------
(***************************************************************************)
(* Model of the Netto receipt parser of pricetracker_gas.                  *)
(*                                                                         *)
(* Two copies of extractNettoReceiptData exist in the repository:          *)
(*   - the monolithic one  (src/src/extractNettoReceiptData.js, and the    *)
(*     same text again in src/unnamed/part_002 lines 101-195);             *)
(*   - the refactored one  (src/unnamed/part_000), built from              *)
(*     extractStoreAndPurchaseString, extractStoreAddress,                 *)
(*     extractLineItems and extractLineItemsArray.                         *)
(* The variable impl says which of the two a run executes.                 *)
(*                                                                         *)
(* A JavaScript string is a sequence of elements.  An element is a record  *)
(* [tag, inner]: a marker, a newline, a run of blanks, or one HTML         *)
(* fragment of the receipt template.  For a table cell, inner is the text  *)
(* between <td ...> and </td>, itself a string: a sequence of elements     *)
(* that stand for one character each (or for the entity "&nbsp;").  split, *)
(* trim, replace, slice, join, filter and the four regular expressions are *)
(* computed on this representation.                                        *)
(* Input domain of the model: at most one table cell per line.             *)
(***************************************************************************)
EXTENDS Integers, Sequences, FiniteSets, TLC

(***************************************************************************)
(* Bounds of the model.                                                    *)
(***************************************************************************)
\* longest freely composed body (sequence of markers, newlines, cells)
MaxBody == 4
\* most lines placed between <!-- WARENKORB --> and <!-- SUMME --> of a
\* body that follows the receipt template
MaxLines == 4
\* longest text placed between Filiale: and <!-- WARENKORB --> of a body
\* that varies the store address
MaxAddress == 4
\* most digits before the comma of a price of a body that varies the price
MaxPriceDigits == 3
\* most messages in the mailbox of a run of processEmailsAndAddToSheet
MaxMessages == 2
\* most lines that follow a complete block (divider, description, price,
\* details) in a body that continues past the details
MaxTrailing == 2
\* most lines between the markers of a body that varies the structural
\* rows the line filter looks for
MaxFilterLines == 2

(***************************************************************************)
(* Elements of strings.                                                    *)
(***************************************************************************)
E(t) == [tag |-> t, inner |-> <<>>]

Cell(t, in) == [tag |-> t, inner |-> in]

\* the literals of src/src/extractNettoReceiptData.js lines 20-24
startMarker == "Filiale:"

warenkorbMarker == "<!-- WARENKORB -->"

summeMarker == "<!-- SUMME -->"

zahlungenMarker == "<!-- ZAHLUNGEN -->"

NL == "\n"

BLANK == " "

BR == "<br>"

\* <tr><td colspan="2"><hr /></td></tr>
HR == "<hr />"

\* <td style="font-size:12px;">inner</td>
FONTSIZE == "font-size"

\* <td style="text-align:right;">inner</td>
RIGHT == "text-align:right"

NBSP == "&nbsp;"

Digits == {"0", "1", "2", "3", "4", "5", "6", "7", "8", "9"}

(***************************************************************************)
(* JavaScript values: a string or undefined, a string or null, a number    *)
(* or null.  Numbers are carried in hundredths (1.29 is 129).              *)
(***************************************************************************)
Undefined == [undef |-> TRUE, v |-> <<>>]

Def(s) == [undef |-> FALSE, v |-> s]

NullStr == [isNull |-> TRUE, val |-> <<>>]

Str(s) == [isNull |-> FALSE, val |-> s]

NullNum == [isNull |-> TRUE, val |-> 0]

Num(n) == [isNull |-> FALSE, val |-> n]

\* JavaScript truthiness of a string-or-null and of a number-or-null
TruthyStr(x) == ~x.isNull /\ x.val # <<>>

TruthyNum(x) == ~x.isNull /\ x.val # 0

(***************************************************************************)
(* String.prototype.split(separator), array indexing, slice, trim,         *)
(* replace and join.                                                       *)
(***************************************************************************)
HasTag(s, t) == \E i \in 1..Len(s) : s[i].tag = t

FirstTag(s, t) == CHOOSE i \in 1..Len(s) :
    s[i].tag = t /\ \A j \in 1..(i - 1) : s[j].tag # t

RECURSIVE Split(_, _)
Split(s, sep) ==
    IF ~HasTag(s, sep)
    THEN <<s>>
    ELSE LET i == FirstTag(s, sep)
         IN  <<SubSeq(s, 1, i - 1)>> \o Split(SubSeq(s, i + 1, Len(s)), sep)

\* arr[k] with k counted from 0: undefined past the end
At(arr, k) == IF k + 1 <= Len(arr) THEN Def(arr[k + 1]) ELSE Undefined

\* a slice that runs to the end of the array whatever its upper index
SliceToEnd(arr, from, to) == SubSeq(arr, from + 1, Len(arr))

\* arr.slice(from, to)
Slice(arr, from, to) ==
    SubSeq(arr, from + 1, IF to <= Len(arr) THEN to ELSE Len(arr))

RECURSIVE TrimLeft(_)
TrimLeft(s) ==
    IF s # <<>> /\ Head(s).tag = BLANK THEN TrimLeft(Tail(s)) ELSE s

RECURSIVE TrimRight(_)
TrimRight(s) ==
    IF s # <<>> /\ s[Len(s)].tag = BLANK
    THEN TrimRight(SubSeq(s, 1, Len(s) - 1))
    ELSE s

\* s.trim()
Trim(s) == TrimRight(TrimLeft(s))

\* s.replace('<br>', ''): the first occurrence only
ReplaceBr(s) ==
    IF HasTag(s, BR)
    THEN LET i == FirstTag(s, BR)
         IN  SubSeq(s, 1, i - 1) \o SubSeq(s, i + 1, Len(s))
    ELSE s

RECURSIVE Join(_)
Join(arr) ==
    IF arr = <<>> THEN <<>>
    ELSE IF Len(arr) = 1 THEN arr[1]
    ELSE arr[1] \o <<E(", ")>> \o Join(Tail(arr))

(***************************************************************************)
(* The four regular expressions (src/src/extractNettoReceiptData.js        *)
(* lines 15-18), on a line that holds at most one table cell.              *)
(***************************************************************************)
TheCell(line, t) == line[FirstTag(line, t)]

\* rowDividerRegex = /<hr .*\/><\/td>/
DividerMatch(line) == HasTag(line, HR)

\* itemRegex = /<td style="font-size:.+>(.+?)<\/td>/ : the cell text must be
\* at least one character long; the capture is the whole cell text
ItemMatch(line) ==
    HasTag(line, FONTSIZE) /\ TheCell(line, FONTSIZE).inner # <<>>

ItemCapture(line) == TheCell(line, FONTSIZE).inner

\* priceRegex = /<td style="text-align:right;.+>(\d+,\d\d)&nbsp;<\/td>/
PriceMatch(line) ==
    /\ HasTag(line, RIGHT)
    /\ LET in == TheCell(line, RIGHT).inner
           n  == Len(in)
       IN  /\ n >= 5
           /\ in[n].tag = NBSP
           /\ in[n - 1].tag \in Digits
           /\ in[n - 2].tag \in Digits
           /\ in[n - 3].tag = ","
           /\ \A i \in 1..(n - 4) : in[i].tag \in Digits

PriceCapture(line) ==
    LET in == TheCell(line, RIGHT).inner IN SubSeq(in, 1, Len(in) - 1)

\* itemDetailsRegex =
\*   /<td style="font-size:.+>&nbsp;&nbsp;&nbsp;&nbsp;(.*?)<\/td>/
DetailMatch(line) ==
    /\ HasTag(line, FONTSIZE)
    /\ LET in == TheCell(line, FONTSIZE).inner
       IN  Len(in) >= 4 /\ \A i \in 1..4 : in[i].tag = NBSP

DetailCapture(line) ==
    LET in == TheCell(line, FONTSIZE).inner IN SubSeq(in, 5, Len(in))

(***************************************************************************)
(* priceMatch[1].trim().replace(',', '.') followed by parseFloat, in       *)
(* hundredths.                                                             *)
(***************************************************************************)
DigitValue(c) ==
    CASE c = "0" -> 0 [] c = "1" -> 1 [] c = "2" -> 2 [] c = "3" -> 3
      [] c = "4" -> 4 [] c = "5" -> 5 [] c = "6" -> 6 [] c = "7" -> 7
      [] c = "8" -> 8 [] c = "9" -> 9

RECURSIVE DecimalValue(_)
DecimalValue(ds) ==
    IF ds = <<>> THEN 0
    ELSE 10 * DecimalValue(SubSeq(ds, 1, Len(ds) - 1))
         + DigitValue(ds[Len(ds)].tag)

\* a parse that reads the digits before the comma only
ParsePriceWholeOnly(priceStr) ==
    LET s == Trim(priceStr)
    IN  100 * DecimalValue(SubSeq(s, 1, Len(s) - 3))

\* priceStr is digits "," digit digit; the hundredths are exact while the
\* amount is below 2^46, where a double resolves better than 0.005
ParsePrice(priceStr) ==
    LET s == Trim(priceStr)
        n == Len(s)
    IN  100 * DecimalValue(SubSeq(s, 1, n - 3))
        + DecimalValue(SubSeq(s, n - 1, n))

(***************************************************************************)
(* The line-item scanner: the body of the for loop of                      *)
(* src/src/extractNettoReceiptData.js lines 49-94 (the same text is        *)
(* extractLineItems, src/unnamed/part_000 lines 68-113).                   *)
(***************************************************************************)
EmptyItem == [description |-> NullStr, totalPrice |-> NullNum,
              details |-> NullStr]

\* a test that every record passes
HasDataAlways(item) == TRUE

\* currentLineItem.description || currentLineItem.totalPrice ||
\* currentLineItem.details
HasData(item) ==
    \/ TruthyStr(item.description)
    \/ TruthyNum(item.totalPrice)
    \/ TruthyStr(item.details)

\* a push without the test for data
FlushAlways(items, item) == Append(items, item)

\* a push that skips a record equal to the last item of the output
FlushDistinct(items, item) ==
    IF HasData(item) /\ (items = <<>> \/ items[Len(items)] # item)
    THEN Append(items, item)
    ELSE items

\* lineItems.push({ ...currentLineItem }) when the record has data
Flush(items, item) == IF HasData(item) THEN Append(items, item) ELSE items

\* the loop body with the flush placed before the divider test, so that it
\* runs on every line
ScanLineFlushOnEveryLine(st, line) ==
    LET fl == [st EXCEPT !.lineItems = Flush(st.lineItems, st.currentLineItem)]
    IN  IF DividerMatch(line)
        THEN [fl EXCEPT !.currentLineItem = EmptyItem,
                        !.searchItem = TRUE,
                        !.searchPrice = FALSE,
                        !.searchDetail = FALSE]
        ELSE IF fl.searchItem /\ ItemMatch(line)
        THEN [fl EXCEPT !.currentLineItem.description =
                            Str(Trim(ItemCapture(line))),
                        !.searchItem = FALSE,
                        !.searchPrice = TRUE]
        ELSE IF fl.searchPrice /\ PriceMatch(line)
        THEN [fl EXCEPT !.currentLineItem.totalPrice =
                            Num(ParsePrice(PriceCapture(line))),
                        !.searchPrice = FALSE,
                        !.searchDetail = TRUE]
        ELSE IF fl.searchDetail /\ DetailMatch(line)
        THEN [fl EXCEPT !.currentLineItem.details =
                            Str(Trim(DetailCapture(line))),
                        !.searchDetail = FALSE]
        ELSE fl

\* the loop body with a divider branch that leaves the search for the price
\* and for the details as they were
ScanLineDividerKeepsSearch(st, line) ==
    IF DividerMatch(line)
    THEN [currentLineItem |-> EmptyItem,
          searchItem      |-> TRUE,
          searchPrice     |-> st.searchPrice,
          searchDetail    |-> st.searchDetail,
          lineItems       |-> Flush(st.lineItems, st.currentLineItem)]
    ELSE IF st.searchItem /\ ItemMatch(line)
    THEN [st EXCEPT !.currentLineItem.description =
                        Str(Trim(ItemCapture(line))),
                    !.searchItem = FALSE,
                    !.searchPrice = TRUE]
    ELSE IF st.searchPrice /\ PriceMatch(line)
    THEN [st EXCEPT !.currentLineItem.totalPrice =
                        Num(ParsePrice(PriceCapture(line))),
                    !.searchPrice = FALSE,
                    !.searchDetail = TRUE]
    ELSE IF st.searchDetail /\ DetailMatch(line)
    THEN [st EXCEPT !.currentLineItem.details =
                        Str(Trim(DetailCapture(line))),
                    !.searchDetail = FALSE]
    ELSE st

\* the loop body with a details branch that goes on searching for details
ScanLineKeepsDetailSearch(st, line) ==
    IF DividerMatch(line)
    THEN [currentLineItem |-> EmptyItem,
          searchItem      |-> TRUE,
          searchPrice     |-> FALSE,
          searchDetail    |-> FALSE,
          lineItems       |-> Flush(st.lineItems, st.currentLineItem)]
    ELSE IF st.searchItem /\ ItemMatch(line)
    THEN [st EXCEPT !.currentLineItem.description =
                        Str(Trim(ItemCapture(line))),
                    !.searchItem = FALSE,
                    !.searchPrice = TRUE]
    ELSE IF st.searchPrice /\ PriceMatch(line)
    THEN [st EXCEPT !.currentLineItem.totalPrice =
                        Num(ParsePrice(PriceCapture(line))),
                    !.searchPrice = FALSE,
                    !.searchDetail = TRUE]
    ELSE IF st.searchDetail /\ DetailMatch(line)
    THEN [st EXCEPT !.currentLineItem.details =
                        Str(Trim(DetailCapture(line)))]
    ELSE st

\* the loop body with a price branch that does not ask whether a price is
\* searched for
ScanLineTakesPriceInAnyState(st, line) ==
    IF DividerMatch(line)
    THEN [currentLineItem |-> EmptyItem,
          searchItem      |-> TRUE,
          searchPrice     |-> FALSE,
          searchDetail    |-> FALSE,
          lineItems       |-> Flush(st.lineItems, st.currentLineItem)]
    ELSE IF st.searchItem /\ ItemMatch(line)
    THEN [st EXCEPT !.currentLineItem.description =
                        Str(Trim(ItemCapture(line))),
                    !.searchItem = FALSE,
                    !.searchPrice = TRUE]
    ELSE IF PriceMatch(line)
    THEN [st EXCEPT !.currentLineItem.totalPrice =
                        Num(ParsePrice(PriceCapture(line))),
                    !.searchPrice = FALSE,
                    !.searchDetail = TRUE]
    ELSE IF st.searchDetail /\ DetailMatch(line)
    THEN [st EXCEPT !.currentLineItem.details =
                        Str(Trim(DetailCapture(line))),
                    !.searchDetail = FALSE]
    ELSE st

\* the loop body with a description branch that is also taken when nothing
\* is searched for
ScanLineTakesItemWhenIdle(st, line) ==
    IF DividerMatch(line)
    THEN [currentLineItem |-> EmptyItem,
          searchItem      |-> TRUE,
          searchPrice     |-> FALSE,
          searchDetail    |-> FALSE,
          lineItems       |-> Flush(st.lineItems, st.currentLineItem)]
    ELSE IF ~st.searchPrice /\ ~st.searchDetail /\ ItemMatch(line)
    THEN [st EXCEPT !.currentLineItem.description =
                        Str(Trim(ItemCapture(line))),
                    !.searchItem = FALSE,
                    !.searchPrice = TRUE]
    ELSE IF st.searchPrice /\ PriceMatch(line)
    THEN [st EXCEPT !.currentLineItem.totalPrice =
                        Num(ParsePrice(PriceCapture(line))),
                    !.searchPrice = FALSE,
                    !.searchDetail = TRUE]
    ELSE IF st.searchDetail /\ DetailMatch(line)
    THEN [st EXCEPT !.currentLineItem.details =
                        Str(Trim(DetailCapture(line))),
                    !.searchDetail = FALSE]
    ELSE st

\* the loop body with a details branch that is also taken while the price
\* is searched for
ScanLineTakesDetailBeforePrice(st, line) ==
    IF DividerMatch(line)
    THEN [currentLineItem |-> EmptyItem,
          searchItem      |-> TRUE,
          searchPrice     |-> FALSE,
          searchDetail    |-> FALSE,
          lineItems       |-> Flush(st.lineItems, st.currentLineItem)]
    ELSE IF st.searchItem /\ ItemMatch(line)
    THEN [st EXCEPT !.currentLineItem.description =
                        Str(Trim(ItemCapture(line))),
                    !.searchItem = FALSE,
                    !.searchPrice = TRUE]
    ELSE IF st.searchPrice /\ PriceMatch(line)
    THEN [st EXCEPT !.currentLineItem.totalPrice =
                        Num(ParsePrice(PriceCapture(line))),
                    !.searchPrice = FALSE,
                    !.searchDetail = TRUE]
    ELSE IF (st.searchDetail \/ st.searchPrice) /\ DetailMatch(line)
    THEN [st EXCEPT !.currentLineItem.details =
                        Str(Trim(DetailCapture(line))),
                    !.searchPrice = FALSE,
                    !.searchDetail = FALSE]
    ELSE st

\* the loop body with a description branch that leaves searchItem set
ScanLineKeepsItemSearch(st, line) ==
    IF DividerMatch(line)
    THEN [currentLineItem |-> EmptyItem,
          searchItem      |-> TRUE,
          searchPrice     |-> FALSE,
          searchDetail    |-> FALSE,
          lineItems       |-> Flush(st.lineItems, st.currentLineItem)]
    ELSE IF st.searchItem /\ ItemMatch(line)
    THEN [st EXCEPT !.currentLineItem.description =
                        Str(Trim(ItemCapture(line))),
                    !.searchPrice = TRUE]
    ELSE IF st.searchPrice /\ PriceMatch(line)
    THEN [st EXCEPT !.currentLineItem.totalPrice =
                        Num(ParsePrice(PriceCapture(line))),
                    !.searchPrice = FALSE,
                    !.searchDetail = TRUE]
    ELSE IF st.searchDetail /\ DetailMatch(line)
    THEN [st EXCEPT !.currentLineItem.details =
                        Str(Trim(DetailCapture(line))),
                    !.searchDetail = FALSE]
    ELSE st

\* one iteration of the loop on the scanner state st
ScanLine(st, line) ==
    IF DividerMatch(line)
    THEN [currentLineItem |-> EmptyItem,
          searchItem      |-> TRUE,
          searchPrice     |-> FALSE,
          searchDetail    |-> FALSE,
          lineItems       |-> Flush(st.lineItems, st.currentLineItem)]
    ELSE IF st.searchItem /\ ItemMatch(line)
    THEN [st EXCEPT !.currentLineItem.description =
                        Str(Trim(ItemCapture(line))),
                    !.searchItem = FALSE,
                    !.searchPrice = TRUE]
    ELSE IF st.searchPrice /\ PriceMatch(line)
    THEN [st EXCEPT !.currentLineItem.totalPrice =
                        Num(ParsePrice(PriceCapture(line))),
                    !.searchPrice = FALSE,
                    !.searchDetail = TRUE]
    ELSE IF st.searchDetail /\ DetailMatch(line)
    THEN [st EXCEPT !.currentLineItem.details =
                        Str(Trim(DetailCapture(line))),
                    !.searchDetail = FALSE]
    ELSE st

(***************************************************************************)
(* Segmentation, address and line filter.                                  *)
(***************************************************************************)
\* a slip that keeps the whole body when the start marker is missing
AfterStartOrWhole(body, startString) ==
    IF HasTag(body, startString)
    THEN At(Split(body, startString), 1)
    ELSE Def(body)

\* emailBody.split(startString)[1]: undefined when startString is missing
AfterStart(body, startString) == At(Split(body, startString), 1)

\* a segmenter that insists on the end marker: .split(endString) must have
\* a second piece
ExtractStoreAndPurchaseStringStrictEnd(body, startString, middleString, endString) ==
    LET rest == AfterStart(body, startString)
    IN  IF rest.undef \/ ~HasTag(rest.v, endString)
        THEN [threw |-> TRUE, storeAddressRaw |-> <<>>,
              lineItemsRaw |-> Undefined]
        ELSE LET storeAndPurchaseStringArray ==
                     Split(At(Split(rest.v, endString), 0).v, middleString)
             IN  [threw           |-> FALSE,
                  storeAddressRaw |-> At(storeAndPurchaseStringArray, 0).v,
                  lineItemsRaw    |-> At(storeAndPurchaseStringArray, 1)]

\* extractStoreAndPurchaseString (src/unnamed/part_000 lines 42-46).
\* threw: emailBody.split(startString)[1] is undefined and .split raises a
\* TypeError.  lineItemsRaw is storeAndPurchaseStringArray[1], which is
\* undefined when middleString does not occur.
ExtractStoreAndPurchaseString(body, startString, middleString, endString) ==
    LET rest == AfterStart(body, startString)
    IN  IF rest.undef
        THEN [threw |-> TRUE, storeAddressRaw |-> <<>>,
              lineItemsRaw |-> Undefined]
        ELSE LET storeAndPurchaseString == At(Split(rest.v, endString), 0).v
                 storeAndPurchaseStringArray ==
                     Split(storeAndPurchaseString, middleString)
             IN  [threw           |-> FALSE,
                  storeAddressRaw |-> At(storeAndPurchaseStringArray, 0).v,
                  lineItemsRaw    |-> At(storeAndPurchaseStringArray, 1)]

\* src/src/extractNettoReceiptData.js lines 20-24: a TypeError at line 20
\* when 'Filiale:' does not occur, at line 24 when '<!-- WARENKORB -->'
\* does not occur in the span.
MonolithicSegments(body) ==
    LET rest == AfterStart(body, startMarker)
    IN  IF rest.undef
        THEN [threw |-> TRUE, storeAddressRaw |-> <<>>,
              lineItemsRaw |-> Undefined]
        ELSE LET storeAndPurchaseString ==
                     At(Split(rest.v, zahlungenMarker), 0).v
                 storeAndPurchaseStringArray ==
                     Split(storeAndPurchaseString, warenkorbMarker)
                 second == At(storeAndPurchaseStringArray, 1)
             IN  IF second.undef
                 THEN [threw |-> TRUE,
                       storeAddressRaw |->
                           At(storeAndPurchaseStringArray, 0).v,
                       lineItemsRaw |-> Undefined]
                 ELSE [threw |-> FALSE,
                       storeAddressRaw |->
                           At(storeAndPurchaseStringArray, 0).v,
                       lineItemsRaw |->
                           Def(At(Split(second.v, summeMarker), 0).v)]

\* s => s.replace('<br>', '').trim() over an array
RECURSIVE CleanAll(_)
CleanAll(arr) ==
    IF arr = <<>> THEN <<>>
    ELSE <<Trim(ReplaceBr(Head(arr)))>> \o CleanAll(Tail(arr))

\* extractStoreAddress (src/unnamed/part_000 lines 48-52; lines 25, 39, 40
\* of the monolithic function)
ExtractStoreAddress(storeAddressRaw) ==
    LET addressRawArray == Slice(Split(storeAddressRaw, NL), 1, 3)
        addressArrayClean == CleanAll(addressRawArray)
    IN  Join(addressArrayClean)

stringsToRemove ==
    { <<>>, <<E("<tr>")>>, <<E("</tr>")>>, <<E("<td>&nbsp;</td>")>>,
      <<E("<td></td>")>> }

\* a test on the line as it stands, not trimmed
KeepLineUntrimmed(line) == line \notin stringsToRemove

KeepLine(line) == Trim(line) \notin stringsToRemove

\* extractLineItemsArray (src/unnamed/part_000 lines 123-130; lines 26 and
\* 42-45 of the monolithic function)
ExtractLineItemsArray(lineItemsRaw) ==
    SelectSeq(Split(lineItemsRaw, NL), KeepLine)

(***************************************************************************)
(* Inputs: email bodies.                                                   *)
(***************************************************************************)
SeqsUpTo(S, n) == UNION { [1..k -> S] : k \in 0..n }

Text(chars) == [i \in 1..Len(chars) |-> E(chars[i])]

\* lines of the line-items block of a receipt
dividerLine == <<E(BLANK), E(HR)>>

descriptionLine == <<E(BLANK), Cell(FONTSIZE, Text(<<"M">>))>>

blankDescriptionLine == <<E(BLANK), Cell(FONTSIZE, Text(<<BLANK>>))>>

priceLine == <<E(BLANK), Cell(RIGHT, Text(<<"1", ",", "2", "9", NBSP>>))>>

zeroPriceLine == <<E(BLANK), Cell(RIGHT, Text(<<"0", ",", "0", "0", NBSP>>))>>

detailsLine ==
    <<E(BLANK), Cell(FONTSIZE, Text(<<NBSP, NBSP, NBSP, NBSP, "L">>))>>

emptyDetailsLine ==
    <<E(BLANK), Cell(FONTSIZE, Text(<<NBSP, NBSP, NBSP, NBSP>>))>>

tableLine == <<E(BLANK), E("<table>")>>

trLine == <<E(BLANK), E("<tr>")>>

BlockLines ==
    { dividerLine, descriptionLine, blankDescriptionLine, priceLine,
      zeroPriceLine, detailsLine, emptyDetailsLine, tableLine, trLine }

RECURSIVE JoinLines(_)
JoinLines(ls) ==
    IF ls = <<>> THEN <<>>
    ELSE Head(ls) \o <<E(NL)>> \o JoinLines(Tail(ls))

\* a body laid out as the receipt template (src/unnamed/part_001 lines
\* 106-144): Filiale:, two address lines, the line-items block between
\* <!-- WARENKORB --> and <!-- SUMME -->, then <!-- ZAHLUNGEN -->
Receipt(ls) ==
    <<E(startMarker), E(NL),
      E(BLANK), E(BR), E("N"), E(NL),
      E(BLANK), E(BR), E("H"), E(NL),
      E(BLANK), E(warenkorbMarker), E(NL)>>
    \o JoinLines(ls)
    \o <<E(BLANK), E(summeMarker), E(NL), E(BLANK), E(zahlungenMarker)>>

ReceiptBodies == { Receipt(ls) : ls \in SeqsUpTo(BlockLines, MaxLines) }

\* freely composed bodies: markers present or absent, in any order
FreeElements ==
    { E(startMarker), E(warenkorbMarker), E(summeMarker),
      E(zahlungenMarker), E(NL), E(HR), Cell(FONTSIZE, Text(<<"M">>)) }

IsCell(e) == e.tag \in {HR, FONTSIZE, RIGHT}

OneCellPerLine(body) ==
    \A i, j \in 1..Len(body) :
        (i < j /\ IsCell(body[i]) /\ IsCell(body[j]))
            => \E k \in (i + 1)..(j - 1) : body[k].tag = NL

FreeBodies ==
    { b \in SeqsUpTo(FreeElements, MaxBody) : OneCellPerLine(b) }

\* bodies that vary the text of the address block: line breaks, <br>
\* markers, blanks and a letter in any arrangement
AddressElements == { E(NL), E(BR), E(BLANK), E("N") }

AddressBody(a) ==
    <<E(startMarker)>> \o a
        \o <<E(warenkorbMarker), E(summeMarker), E(zahlungenMarker)>>

AddressBodies ==
    { AddressBody(a) : a \in SeqsUpTo(AddressElements, MaxAddress) }

\* bodies that vary the price of one item: one to MaxPriceDigits digits, a
\* comma and two digits, leading zeros included
PriceDigits == {"0", "1", "9"}

PriceStrings ==
    { whole \o <<",">> \o cents :
          whole \in SeqsUpTo(PriceDigits, MaxPriceDigits) \ {<<>>},
          cents \in [1..2 -> PriceDigits] }

PriceLineOf(p) == <<E(BLANK), Cell(RIGHT, Text(p \o <<NBSP>>))>>

PriceBodies ==
    { Receipt(<<dividerLine, descriptionLine, PriceLineOf(p)>>) :
          p \in PriceStrings }

\* bodies with a complete block followed by further lines
fullBlock == <<dividerLine, descriptionLine, priceLine, detailsLine>>

TrailingBodies ==
    { Receipt(fullBlock \o t) : t \in SeqsUpTo(BlockLines, MaxTrailing) }

\* bodies made of the structural rows the filter removes, bare and
\* indented, of rows that hold two of them, and of rows it has to keep
FilterLines ==
    { <<>>, <<E(BLANK)>>,
      <<E(BLANK), E("<tr>")>>, <<E("</tr>"), E(BLANK)>>,
      <<E("<td>&nbsp;</td>")>>, <<E(BLANK), E("<td></td>")>>,
      <<E("<tr>"), E("<td></td>")>>, <<E("<td>"), E(BLANK)>>,
      dividerLine, descriptionLine }

FilterBodies ==
    { Receipt(ls) : ls \in SeqsUpTo(FilterLines, MaxFilterLines) }

Bodies ==
    ReceiptBodies \cup FreeBodies \cup AddressBodies \cup PriceBodies
        \cup TrailingBodies \cup FilterBodies

(***************************************************************************)
(* State.                                                                  *)
(***************************************************************************)
VARIABLES
    emailBody,               \* the argument of extractNettoReceiptData
    impl,                    \* "monolithic" or "refactored"
    pc,                      \* "start", "address", "items", "scan",
                             \* "done" (returned) or "error" (threw)
    segments,                \* storeAddressRaw and lineItemsRaw
    storeAddress,
    lineItemsFilteredArray,
    idx,                     \* lines of lineItemsFilteredArray iterated
    currentLineItem,
    searchItem,
    searchPrice,
    searchDetail,
    lineItems,
    result                   \* the returned object, null until the return

\* the run of processEmailsAndAddToSheet (src/unnamed/part_002)
VARIABLES
    mailbox,                 \* the messages, in the order of their threads
    found,                   \* the messages of the threads the search found
    cur,                     \* position in found of the message in work
    bpc,                     \* "search", "message", "store", "purchase",
                             \* "lines", "mark" or "finished"
    data,                    \* what extractReceiptData returned
    storeId,
    purchaseId,
    storesSheet,             \* rows of the sheet "stores", header first
    purchasesSheet,          \* rows of the sheet "purchases", header first
    priceLog,                \* rows appended to the sheet "priceLog"
    globalScope,             \* bindings made by assignments to undeclared
                             \* names
    errorLog,                \* errors caught and logged, by message
    parsed,                  \* messages given to extractReceiptData, with
                             \* the data returned
    loads,                   \* messages whose line items were loaded
    marked,                  \* messages on which markRead() was called
    labelled                 \* threads given the label 'processing-error'

parserVars == <<emailBody, impl, pc, segments, storeAddress,
                lineItemsFilteredArray, idx, currentLineItem, searchItem,
                searchPrice, searchDetail, lineItems, result>>

batchVars == <<mailbox, found, cur, bpc, data, storeId, purchaseId,
               storesSheet, purchasesSheet, priceLog, globalScope, errorLog,
               parsed, loads, marked, labelled>>

vars == <<parserVars, batchVars>>

scanVars == <<currentLineItem, searchItem, searchPrice, searchDetail,
              lineItems>>

NoSegments == [storeAddressRaw |-> <<>>, lineItemsRaw |-> Undefined]

NoResult == [isNull |-> TRUE, storeAddress |-> NullStr, lineItems |-> <<>>]

NoGlobals ==
    [storeAndPurchaseStringArray |-> Undefined,
     lineItemsFilteredArray |-> Undefined]

\* no run of processEmailsAndAddToSheet is under way
BatchIdle ==
    /\ mailbox = <<>>
    /\ found = <<>>
    /\ cur = 0
    /\ bpc = "idle"
    /\ data = NoResult
    /\ storeId = 0
    /\ purchaseId = 0
    /\ storesSheet = <<>>
    /\ purchasesSheet = <<>>
    /\ priceLog = <<>>
    /\ globalScope = NoGlobals
    /\ errorLog = {}
    /\ parsed = {}
    /\ loads = {}
    /\ marked = {}
    /\ labelled = {}

\* src/src/extractNettoReceiptData.js lines 28-34 (src/unnamed/part_000
\* lines 60-66): the locals before the first line is read
Init ==
    /\ emailBody \in Bodies
    /\ impl \in {"monolithic", "refactored"}
    /\ pc = "start"
    /\ segments = NoSegments
    /\ storeAddress = NullStr
    /\ lineItemsFilteredArray = <<>>
    /\ idx = 0
    /\ currentLineItem = EmptyItem
    /\ searchItem = FALSE
    /\ searchPrice = FALSE
    /\ searchDetail = FALSE
    /\ lineItems = <<>>
    /\ result = NoResult
    /\ BatchIdle

(***************************************************************************)
(* Monolithic extractNettoReceiptData, lines 20-45: segmentation, address  *)
(* and line filter.                                                        *)
(***************************************************************************)
Segment ==
    /\ pc = "start"
    /\ impl = "monolithic"
    /\ LET seg == MonolithicSegments(emailBody)
       IN  IF seg.threw
           THEN /\ pc' = "error"
                /\ UNCHANGED <<segments, storeAddress,
                               lineItemsFilteredArray>>
           ELSE /\ pc' = "scan"
                /\ segments' = [storeAddressRaw |-> seg.storeAddressRaw,
                                lineItemsRaw |-> seg.lineItemsRaw]
                /\ storeAddress' =
                       Str(ExtractStoreAddress(seg.storeAddressRaw))
                /\ lineItemsFilteredArray' =
                       ExtractLineItemsArray(seg.lineItemsRaw.v)
    /\ UNCHANGED <<emailBody, impl, idx, scanVars, result>>
    /\ UNCHANGED batchVars

(***************************************************************************)
(* Refactored extractNettoReceiptData (src/unnamed/part_000).              *)
(***************************************************************************)
\* line 15: the call passes '<!-- ZAHLUNGEN -->' as middleString and
\* '<!-- SUMME -->' as endString
CallExtractStoreAndPurchaseString ==
    /\ pc = "start"
    /\ impl = "refactored"
    /\ LET seg == ExtractStoreAndPurchaseString(
                      emailBody, startMarker, zahlungenMarker, summeMarker)
       IN  IF seg.threw
           THEN /\ pc' = "error"
                /\ UNCHANGED segments
           ELSE /\ pc' = "address"
                /\ segments' = [storeAddressRaw |-> seg.storeAddressRaw,
                                lineItemsRaw |-> seg.lineItemsRaw]
    /\ UNCHANGED <<emailBody, impl, storeAddress, lineItemsFilteredArray,
                   idx, scanVars, result>>
    /\ UNCHANGED batchVars

\* line 19
CallExtractStoreAddress ==
    /\ pc = "address"
    /\ storeAddress' = Str(ExtractStoreAddress(segments.storeAddressRaw))
    /\ pc' = "items"
    /\ UNCHANGED <<emailBody, impl, segments, lineItemsFilteredArray, idx,
                   scanVars, result>>
    /\ UNCHANGED batchVars

\* line 23 into extractLineItems, lines 54-66: lineItemsRaw.split raises a
\* TypeError when lineItemsRaw is undefined
CallExtractLineItemsArray ==
    /\ pc = "items"
    /\ IF segments.lineItemsRaw.undef
       THEN /\ pc' = "error"
            /\ UNCHANGED lineItemsFilteredArray
       ELSE /\ pc' = "scan"
            /\ lineItemsFilteredArray' =
                   ExtractLineItemsArray(segments.lineItemsRaw.v)
    /\ UNCHANGED <<emailBody, impl, segments, storeAddress, idx, scanVars,
                   result>>
    /\ UNCHANGED batchVars

(***************************************************************************)
(* The scan loop and the return, the same in both copies.                  *)
(***************************************************************************)
ScannerState ==
    [currentLineItem |-> currentLineItem, searchItem |-> searchItem,
     searchPrice |-> searchPrice, searchDetail |-> searchDetail,
     lineItems |-> lineItems]

\* one iteration of for (const line of lineItemsFilteredArray)
ScanNextLine ==
    /\ pc = "scan"
    /\ idx < Len(lineItemsFilteredArray)
    /\ LET st == ScanLine(ScannerState, lineItemsFilteredArray[idx + 1])
       IN  /\ currentLineItem' = st.currentLineItem
           /\ searchItem' = st.searchItem
           /\ searchPrice' = st.searchPrice
           /\ searchDetail' = st.searchDetail
           /\ lineItems' = st.lineItems
    /\ idx' = idx + 1
    /\ UNCHANGED <<emailBody, impl, pc, segments, storeAddress,
                   lineItemsFilteredArray, result>>
    /\ UNCHANGED batchVars

\* lines 96-104: the last flush and the return
Return ==
    /\ pc = "scan"
    /\ idx = Len(lineItemsFilteredArray)
    /\ lineItems' = Flush(lineItems, currentLineItem)
    /\ result' = [isNull |-> FALSE, storeAddress |-> storeAddress,
                  lineItems |-> lineItems']
    /\ pc' = "done"
    /\ UNCHANGED <<emailBody, impl, segments, storeAddress,
                   lineItemsFilteredArray, idx, currentLineItem, searchItem,
                   searchPrice, searchDetail>>
    /\ UNCHANGED batchVars

Next ==
    \/ Segment
    \/ CallExtractStoreAndPurchaseString
    \/ CallExtractStoreAddress
    \/ CallExtractLineItemsArray
    \/ ScanNextLine
    \/ Return

Spec == Init /\ [][Next]_vars

(***************************************************************************)
(* Vocabulary of the properties.                                           *)
(***************************************************************************)
\* the lines that hold a divider row, counted on the text of the lines
NumDividers(ls) == Cardinality({ i \in 1..Len(ls) : HasTag(ls[i], HR) })

HasNonNullField(item) ==
    \/ ~item.description.isNull
    \/ ~item.totalPrice.isNull
    \/ ~item.details.isNull

\* the loop is about to read a divider line
AtDivider ==
    /\ pc = "scan"
    /\ idx < Len(lineItemsFilteredArray)
    /\ HasTag(lineItemsFilteredArray[idx + 1], HR)

\* every line has been read and the function is about to return
AtEndOfInput == pc = "scan" /\ idx = Len(lineItemsFilteredArray)

IsDescriptionLine(l) ==
    ~HasTag(l, HR) /\ ItemMatch(l) /\ ~DetailMatch(l) /\ ~PriceMatch(l)

IsPriceLine(l) == ~HasTag(l, HR) /\ PriceMatch(l)

IsDetailsLine(l) == ~HasTag(l, HR) /\ DetailMatch(l)

\* K >= 1 blocks (description, price, details) with a divider between two
\* consecutive blocks and none before the first
IsItemBlocks(ls) ==
    /\ Len(ls) % 4 = 3
    /\ \A i \in 1..Len(ls) :
          CASE i % 4 = 1 -> IsDescriptionLine(ls[i])
            [] i % 4 = 2 -> IsPriceLine(ls[i])
            [] i % 4 = 3 -> IsDetailsLine(ls[i])
            [] OTHER     -> HasTag(ls[i], HR)

BlockItem(ls, k) ==
    [description |-> Str(Trim(ItemCapture(ls[4 * k - 3]))),
     totalPrice  |-> Num(ParsePrice(PriceCapture(ls[4 * k - 2]))),
     details     |-> Str(Trim(DetailCapture(ls[4 * k - 1])))]

NoFieldOrDivider(ls) ==
    \A i \in 1..Len(ls) :
        /\ ~DividerMatch(ls[i])
        /\ ~ItemMatch(ls[i])
        /\ ~PriceMatch(ls[i])
        /\ ~DetailMatch(ls[i])

\* the end marker each copy cuts the span at
EndMarkerOf(i) == IF i = "monolithic" THEN zahlungenMarker ELSE summeMarker

\* the marker each copy splits the span at
MiddleMarkerOf(i) ==
    IF i = "monolithic" THEN warenkorbMarker ELSE zahlungenMarker

StartPresent == HasTag(emailBody, startMarker)

\* the text after the first start marker
Remainder == Split(emailBody, startMarker)[2]

EndMissing == StartPresent /\ ~HasTag(Remainder, EndMarkerOf(impl))

(***************************************************************************)
(* C1.  For a line-items block made of K >= 1 item blocks (description     *)
(* line, price line, details line) separated by K-1 dividers, with no      *)
(* divider before the first block, the function returns exactly K line     *)
(* items in source order, the i-th carrying the fields of the i-th block.  *)
(* Stated as claimed; the code starts with searchItem = false and so reads *)
(* no field before the first divider.                                      *)
(***************************************************************************)
C1_BlocksYieldItems ==
    (pc = "done" /\ IsItemBlocks(lineItemsFilteredArray))
        => result.lineItems =
               [k \in 1..((Len(lineItemsFilteredArray) + 1) \div 4) |->
                    BlockItem(lineItemsFilteredArray, k)]

(***************************************************************************)
(* C2.  No record is lost at a flush: at every divider and at the end of   *)
(* the input, an in-progress record with at least one non-null field is    *)
(* appended to the output, whatever values its fields hold.  Stated as     *)
(* claimed; the code tests truthiness, not non-nullness.                   *)
(***************************************************************************)
C2_NoRecordLostAtFlush ==
    [][((AtDivider \/ AtEndOfInput) /\ HasNonNullField(currentLineItem))
           => lineItems' = Append(lineItems, currentLineItem)]_vars

(***************************************************************************)
(* C3.  Every line item in the output has at least one of description,     *)
(* totalPrice, details non-null: the empty record a divider leaves behind  *)
(* is never in the output.                                                 *)
(***************************************************************************)
C3_EmittedItemsHaveData ==
    /\ \A i \in 1..Len(lineItems) : HasNonNullField(lineItems[i])
    /\ \A i \in 1..Len(result.lineItems) :
          HasNonNullField(result.lineItems[i])

\* a receipt has been returned whose last line was a divider: the empty
\* record that divider started was dropped, an earlier item was kept
C3_Witness ==
    /\ pc = "done"
    /\ result.lineItems # <<>>
    /\ lineItemsFilteredArray # <<>>
    /\ HasTag(lineItemsFilteredArray[Len(lineItemsFilteredArray)], HR)
    /\ currentLineItem = EmptyItem

(***************************************************************************)
(* C4.  A record for which only the description was matched is still       *)
(* emitted, with totalPrice and details null, at the next divider or at    *)
(* the end of the input.  Stated as claimed; it fails for a description    *)
(* that is empty after trimming.                                           *)
(***************************************************************************)
C4_DescriptionOnlyEmitted ==
    [][((AtDivider \/ AtEndOfInput)
            /\ ~currentLineItem.description.isNull
            /\ currentLineItem.totalPrice.isNull
            /\ currentLineItem.details.isNull)
           => /\ Len(lineItems') = Len(lineItems) + 1
              /\ lineItems'[Len(lineItems')] =
                     [description |-> currentLineItem.description,
                      totalPrice  |-> NullNum,
                      details     |-> NullStr]]_vars

(***************************************************************************)
(* C5.  For every sequence of filtered lines containing N divider lines,   *)
(* the scanner emits at most N+1 line items.                               *)
(***************************************************************************)
C5_AtMostDividersPlusOne ==
    /\ Len(lineItems) <= NumDividers(lineItemsFilteredArray) + 1
    /\ Len(result.lineItems) <= NumDividers(lineItemsFilteredArray) + 1

\* two dividers were read and two items returned
C5_Witness ==
    /\ pc = "done"
    /\ NumDividers(lineItemsFilteredArray) = 2
    /\ Len(result.lineItems) = 2

(***************************************************************************)
(* C6.  When the line-items block contains no divider and no line matching *)
(* a field pattern, extraction returns lineItems as an empty sequence, not *)
(* null, together with a non-null storeAddress; the monolithic function    *)
(* does not throw on a body that has a line-items block (as the empty      *)
(* receipt of testEmptyReceipt).                                           *)
(***************************************************************************)
C6_EmptyReceipt ==
    /\ (pc = "done" /\ NoFieldOrDivider(lineItemsFilteredArray))
           => /\ ~result.isNull
              /\ result.lineItems = <<>>
              /\ ~result.storeAddress.isNull
    /\ (/\ impl = "monolithic"
        /\ StartPresent
        /\ HasTag(Split(Remainder, zahlungenMarker)[1], warenkorbMarker))
           => pc # "error"

\* the empty receipt has been returned for
C6_Witness ==
    /\ pc = "done"
    /\ impl = "monolithic"
    /\ emailBody = Receipt(<<>>)
    /\ result.lineItems = <<>>

(***************************************************************************)
(* C7.  If the start marker Filiale: does not occur in the email body,     *)
(* extraction fails with an error and returns no result.                   *)
(***************************************************************************)
C7_MissingStartMarkerThrows ==
    /\ (~StartPresent /\ pc # "start") => pc = "error"
    /\ pc = "error" => result.isNull

\* a body without Filiale: has made the function throw
C7_Witness == pc = "error" /\ ~StartPresent /\ emailBody # <<>>

C9_SegmenterNeverReturnsMissingLineItems ==
    (impl = "refactored" /\ pc \in {"address", "items"})
        => ~segments.lineItemsRaw.undef

(***************************************************************************)
(* C10.  For a body that contains Filiale: but none of                     *)
(* <!-- WARENKORB -->, <!-- SUMME -->, <!-- ZAHLUNGEN -->, the function    *)
(* does not throw and returns a non-null result object.  Stated as         *)
(* claimed (testMalformedReceipt); the code throws a TypeError.            *)
(***************************************************************************)
C10_MalformedReceiptReturns ==
    (/\ StartPresent
     /\ ~HasTag(emailBody, warenkorbMarker)
     /\ ~HasTag(emailBody, summeMarker)
     /\ ~HasTag(emailBody, zahlungenMarker))
        => /\ pc # "error"
           /\ pc = "done" => ~result.isNull

(***************************************************************************)
(* Vocabulary: cutting a text at the first occurrence of a marker.         *)
(***************************************************************************)
\* the text before the first t (all of s when t does not occur)
BeforeFirst(s, t) ==
    IF HasTag(s, t) THEN SubSeq(s, 1, FirstTag(s, t) - 1) ELSE s

\* all of the text after the first t
AfterFirst(s, t) == SubSeq(s, FirstTag(s, t) + 1, Len(s))

\* everything after the first start marker up to the first end marker
FirstOccurrenceSpan ==
    BeforeFirst(AfterFirst(emailBody, startMarker), EndMarkerOf(impl))

\* the segmenter has returned its two segments
Segmented == pc \in {"address", "items", "scan", "done"}

(***************************************************************************)
(* C11.  The segmenter cuts at first occurrences: the span is everything   *)
(* after the first start marker up to the first end marker;                *)
(* storeAddressRaw is the span's text before the first middle marker and   *)
(* lineItemsRaw is all of the span's text after the first middle marker    *)
(* (in the monolithic copy, up to <!-- SUMME -->), also for bodies in      *)
(* which the start or the middle marker occurs more than once.  Stated as  *)
(* claimed; split(marker)[1] is the text between the first and the second  *)
(* occurrence.                                                             *)
(***************************************************************************)
C11_CutsAtFirstOccurrences ==
    (Segmented /\ HasTag(FirstOccurrenceSpan, MiddleMarkerOf(impl)))
        => LET afterMiddle ==
                   AfterFirst(FirstOccurrenceSpan, MiddleMarkerOf(impl))
           IN  /\ segments.storeAddressRaw =
                      BeforeFirst(FirstOccurrenceSpan, MiddleMarkerOf(impl))
               /\ segments.lineItemsRaw =
                      Def(IF impl = "monolithic"
                          THEN BeforeFirst(afterMiddle, summeMarker)
                          ELSE afterMiddle)

(***************************************************************************)
(* Vocabulary of the store address.                                        *)
(***************************************************************************)
\* extractStoreAddress has returned
AddressExtracted == pc \in {"items", "scan", "done"}

\* line k (from 0) of storeAddressRaw, undefined when there is none
AddressLine(k) == At(Split(segments.storeAddressRaw, NL), k)

\* a line with every <br> taken out
WithoutBr(l) == SelectSeq(l, LAMBDA e : e.tag # BR)

\* a line with its first <br> taken out
WithoutFirstBr(l) ==
    IF HasTag(l, BR)
    THEN SubSeq(l, 1, FirstTag(l, BR) - 1)
             \o SubSeq(l, FirstTag(l, BR) + 1, Len(l))
    ELSE l

\* lines 1 and 2, as many as there are, joined by ", "
JoinedAddress(first, second) ==
    IF AddressLine(1).undef THEN <<>>
    ELSE IF AddressLine(2).undef THEN first
    ELSE first \o <<E(", ")>> \o second

InitialScan ==
    [currentLineItem |-> EmptyItem, searchItem |-> FALSE,
     searchPrice |-> FALSE, searchDetail |-> FALSE, lineItems |-> <<>>]

\* lines 49-94: the loop over all the lines
RECURSIVE ScanLines(_, _)
ScanLines(st, lines) ==
    IF lines = <<>> THEN st
    ELSE ScanLines(ScanLine(st, Head(lines)), Tail(lines))

\* lines 13-105: threw, or the returned storeAddress and lineItems
MonolithicExtract(body) ==
    LET seg == MonolithicSegments(body)
    IN  IF seg.threw
        THEN [threw |-> TRUE, storeAddress |-> NullStr, lineItems |-> <<>>]
        ELSE LET st == ScanLines(InitialScan,
                           ExtractLineItemsArray(seg.lineItemsRaw.v))
             IN  [threw |-> FALSE,
                  storeAddress |->
                      Str(ExtractStoreAddress(seg.storeAddressRaw)),
                  lineItems |-> Flush(st.lineItems, st.currentLineItem)]

\* the four markers occur, first occurrences in the order Filiale:,
\* WARENKORB, SUMME, ZAHLUNGEN
MarkersInOrder ==
    /\ \A t \in {startMarker, warenkorbMarker, summeMarker, zahlungenMarker} :
           HasTag(emailBody, t)
    /\ FirstTag(emailBody, startMarker) < FirstTag(emailBody, warenkorbMarker)
    /\ FirstTag(emailBody, warenkorbMarker) < FirstTag(emailBody, summeMarker)
    /\ FirstTag(emailBody, summeMarker) < FirstTag(emailBody, zahlungenMarker)

(***************************************************************************)
(* C15.  The refactored extractNettoReceiptData is equivalent to the       *)
(* monolithic one: on every body with the markers in the order Filiale:,   *)
(* WARENKORB, SUMME, ZAHLUNGEN it fails exactly when the monolithic one    *)
(* fails and otherwise returns the same storeAddress and lineItems.        *)
(* Stated as claimed; the refactored call passes '<!-- ZAHLUNGEN -->' as   *)
(* the middle marker and fails where the monolithic function returns.      *)
(***************************************************************************)
C15_RefactoredEquivalentToMonolithic ==
    (impl = "refactored" /\ MarkersInOrder)
        => /\ pc = "error" => MonolithicExtract(emailBody).threw
           /\ pc = "done"
                  => /\ ~MonolithicExtract(emailBody).threw
                     /\ result.storeAddress =
                            MonolithicExtract(emailBody).storeAddress
                     /\ result.lineItems =
                            MonolithicExtract(emailBody).lineItems

(***************************************************************************)
(* Vocabulary of the price: Number.prototype.toFixed(2) on an amount in    *)
(* hundredths, and the digits of the matched price string.                 *)
(***************************************************************************)
DigitChar(d) ==
    CASE d = 0 -> "0" [] d = 1 -> "1" [] d = 2 -> "2" [] d = 3 -> "3"
      [] d = 4 -> "4" [] d = 5 -> "5" [] d = 6 -> "6" [] d = 7 -> "7"
      [] d = 8 -> "8" [] d = 9 -> "9"

\* the decimal digits of n, no leading zero; "0" for zero
RECURSIVE DecimalDigits(_)
DecimalDigits(n) ==
    IF n < 10 THEN <<E(DigitChar(n))>>
    ELSE DecimalDigits(n \div 10) \o <<E(DigitChar(n % 10))>>

\* (hundredths / 100).toFixed(2)
ToFixed2(hundredths) ==
    DecimalDigits(hundredths \div 100)
        \o <<E("."), E(DigitChar((hundredths % 100) \div 10)),
             E(DigitChar(hundredths % 10))>>

\* the string with its comma replaced by a point
CommaToPoint(str) ==
    [i \in 1..Len(str) |-> IF str[i].tag = "," THEN E(".") ELSE str[i]]

\* the string without the zeros that stand before another digit at its front
RECURSIVE StripLeadingZeros(_)
StripLeadingZeros(str) ==
    IF Len(str) >= 2 /\ str[1].tag = "0" /\ str[2].tag \in Digits
    THEN StripLeadingZeros(Tail(str))
    ELSE str

\* this step stores the price of the line just read
StoresPrice ==
    currentLineItem.totalPrice.isNull /\ ~currentLineItem'.totalPrice.isNull

storeName == "Netto Marken-Discount"

\* message.getDate(): the day of the messages of the mailbox; the rows of
\* the purchases sheet carry this day or the next
messageDate == 1

\* a body without any marker
malformedBody == <<E(BLANK), E(HR)>>

\* a receipt of the store "N, H" with one item of 1,29
receiptBody == Receipt(<<dividerLine, descriptionLine, priceLine>>)

\* a receipt of the store "N, H" without items
emptyReceiptBody == Receipt(<<>>)

\* a receipt of the store "N" without items
otherStoreBody == AddressBody(<<E(NL), E("N")>>)

BatchBodies ==
    { malformedBody, receiptBody, emptyReceiptBody, otherStoreBody }

\* newThread: the message is the first of its thread
Messages ==
    [body : BatchBodies, unread : BOOLEAN, newThread : BOOLEAN,
     date : {messageDate}]

Mailboxes ==
    { m \in SeqsUpTo(Messages, MaxMessages) : m # <<>> => m[1].newThread }

\* rows of the sheet "stores": ID, name, address.  by: the message whose
\* processing appended the row, 0 for the rows that were there before.
\* The sheet numbers its rows: the ID of a row is its place below the header.
storesHeader ==
    [id |-> 0, name |-> "name", address |-> <<E("address")>>, by |-> 0]

StoreRow(id, address, by) ==
    [id |-> id, name |-> storeName, address |-> address, by |-> by]

AddressOf(body) == MonolithicExtract(body).storeAddress.val

InitialStores ==
    { <<storesHeader>>,
      <<storesHeader, StoreRow(1, AddressOf(receiptBody), 0)>>,
      <<storesHeader, StoreRow(1, AddressOf(otherStoreBody), 0)>>,
      <<storesHeader, StoreRow(1, AddressOf(receiptBody), 0),
        StoreRow(2, AddressOf(otherStoreBody), 0)>> }

\* rows of the sheet "purchases": columns purchaseIdColumnIndex,
\* dateColumnIndex, totalPriceColumnIndex, storeIdColumnIndex (lines 2-5)
purchasesHeader ==
    [id |-> 0, date |-> 0, totalPrice |-> NullNum, storeId |-> 0, by |-> 0]

PurchaseRow(id, date, totalPrice, sid, by) ==
    [id |-> id, date |-> date, totalPrice |-> totalPrice, storeId |-> sid,
     by |-> by]

InitialPurchases ==
    { <<purchasesHeader>> }
    \cup { <<purchasesHeader, PurchaseRow(1, d, Num(129), sid, 0)>> :
               d \in {messageDate, messageDate + 1}, sid \in {1, 2} }

\* the state before processEmailsAndAddToSheet is called
InitBatch ==
    /\ emailBody = <<>>
    /\ impl = "monolithic"
    /\ pc = "idle"
    /\ segments = NoSegments
    /\ storeAddress = NullStr
    /\ lineItemsFilteredArray = <<>>
    /\ idx = 0
    /\ currentLineItem = EmptyItem
    /\ searchItem = FALSE
    /\ searchPrice = FALSE
    /\ searchDetail = FALSE
    /\ lineItems = <<>>
    /\ result = NoResult
    /\ mailbox \in Mailboxes
    /\ found = <<>>
    /\ cur = 0
    /\ bpc = "search"
    /\ data = NoResult
    /\ storeId = 0
    /\ purchaseId = 0
    /\ storesSheet \in InitialStores
    /\ purchasesSheet \in InitialPurchases
    /\ priceLog = <<>>
    /\ globalScope = NoGlobals
    /\ errorLog = {}
    /\ parsed = {}
    /\ loads = {}
    /\ marked = {}
    /\ labelled = {}

(***************************************************************************)
(* The functions of src/unnamed/part_002.                                  *)
(***************************************************************************)
\* the first message of the thread of message i
ThreadOf(box, i) ==
    CHOOSE k \in 1..i :
        box[k].newThread /\ \A j \in (k + 1)..i : ~box[j].newThread

\* lines 12-13 and 39: GmailApp.search(... is:unread) gives the threads
\* that hold an unread message, thread.getMessages() all the messages of
\* such a thread
FoundMessages(box) ==
    SelectSeq([i \in 1..Len(box) |-> i],
              LAMBDA i : \E j \in 1..Len(box) :
                             ThreadOf(box, j) = ThreadOf(box, i)
                             /\ box[j].unread)

\* extractReceiptData, lines 75-87: null when extractNettoReceiptData
\* (lines 101-195, the text of the monolithic function) throws
ExtractReceiptData(body) ==
    LET r == MonolithicExtract(body)
    IN  IF r.threw THEN NoResult
        ELSE [isNull |-> FALSE, storeAddress |-> r.storeAddress,
              lineItems |-> r.lineItems]

\* lines 109 and 131: storeAndPurchaseStringArray and lineItemsFilteredArray
\* are assigned without a declaration, which binds them in the global scope;
\* line 108 or line 112 may throw before the assignment is reached
GlobalsAfterExtract(body, old) ==
    LET rest == AfterStart(body, startMarker)
    IN  IF rest.undef THEN old
        ELSE LET arr == Split(At(Split(rest.v, zahlungenMarker), 0).v,
                              warenkorbMarker)
             IN  IF At(arr, 1).undef
                 THEN [old EXCEPT !.storeAndPurchaseStringArray = Def(arr)]
                 ELSE [storeAndPurchaseStringArray |-> Def(arr),
                       lineItemsFilteredArray |->
                           Def(ExtractLineItemsArray(
                                   MonolithicSegments(body).lineItemsRaw.v))]

\* lines 231 and 235: storeAddresses.indexOf(data.storeAddress), the
\* header skipped; -1 when no row holds the address
ExistingStoreIndex(storesData, address) ==
    LET hits == { r \in 2..Len(storesData) : storesData[r].address = address }
    IN  IF hits = {} THEN -1
        ELSE (CHOOSE r \in hits : \A q \in hits : r <= q) - 2

\* getLastRowData, lines 336-338
GetLastRowData(sheetData) == sheetData[Len(sheetData)]

\* findMatchingPurchaseId, lines 283-300: the ID of the first row below the
\* header with the store ID and the date; isMatchingPrice is true
FindMatchingPurchaseId(purchasesData, sid, purchaseDate) ==
    LET hits == { r \in 2..Len(purchasesData) :
                      /\ purchasesData[r].storeId = sid
                      /\ purchasesData[r].date = purchaseDate }
    IN  IF hits = {} THEN NullNum
        ELSE Num(purchasesData[CHOOSE r \in hits : \A q \in hits : r <= q].id)

\* lines 320-332: one appended row for each line item
PriceLogRows(items, pid, by) ==
    [k \in 1..Len(items) |->
        [description |-> items[k].description, details |-> items[k].details,
         totalPrice |-> items[k].totalPrice, purchaseId |-> pid, by |-> by]]

\* the message in work
Message == found[cur]

(***************************************************************************)
(* The steps of a run.                                                     *)
(***************************************************************************)
\* processEmailsAndAddToSheet, lines 11-17, into processThreads
Search ==
    /\ bpc = "search"
    /\ found' = FoundMessages(mailbox)
    /\ cur' = 1
    /\ bpc' = "message"
    /\ UNCHANGED <<mailbox, data, storeId, purchaseId, storesSheet,
                   purchasesSheet, priceLog, globalScope, errorLog, parsed,
                   loads, marked, labelled>>
    /\ UNCHANGED parserVars

\* a processMessage in which an error of the extraction leaves the run
ProcessMessageAbortsOnError ==
    /\ bpc = "message"
    /\ cur <= Len(found)
    /\ data' = ExtractReceiptData(mailbox[Message].body)
    /\ globalScope' = GlobalsAfterExtract(mailbox[Message].body, globalScope)
    /\ parsed' = parsed \cup {[message |-> Message, data |-> data']}
    /\ IF data'.isNull
       THEN /\ errorLog' = errorLog \cup
                    {[message |-> Message, at |-> "extractReceiptData"]}
            /\ bpc' = "finished"
            /\ UNCHANGED cur
       ELSE /\ bpc' = "store"
            /\ UNCHANGED <<cur, errorLog>>
    /\ UNCHANGED <<mailbox, found, storeId, purchaseId, storesSheet,
                   purchasesSheet, priceLog, loads, marked, labelled>>
    /\ UNCHANGED parserVars

\* a processMessage that marks the message read before the data is loaded
ProcessMessageMarksReadFirst ==
    /\ bpc = "message"
    /\ cur <= Len(found)
    /\ data' = ExtractReceiptData(mailbox[Message].body)
    /\ globalScope' = GlobalsAfterExtract(mailbox[Message].body, globalScope)
    /\ parsed' = parsed \cup {[message |-> Message, data |-> data']}
    /\ IF data'.isNull
       THEN /\ errorLog' = errorLog \cup
                    {[message |-> Message, at |-> "extractReceiptData"]}
            /\ cur' = cur + 1
            /\ bpc' = "message"
            /\ UNCHANGED <<mailbox, marked>>
       ELSE /\ bpc' = "store"
            /\ mailbox' = [mailbox EXCEPT ![Message].unread = FALSE]
            /\ marked' = marked \cup {Message}
            /\ UNCHANGED <<cur, errorLog>>
    /\ UNCHANGED <<found, storeId, purchaseId, storesSheet, purchasesSheet,
                   priceLog, loads, labelled>>
    /\ UNCHANGED parserVars

\* processMessage, lines 53-60, with extractReceiptData, lines 75-87: the
\* error of the extraction is caught and logged there and null comes back,
\* so that if (data) skips the message
ProcessMessage ==
    /\ bpc = "message"
    /\ cur <= Len(found)
    /\ data' = ExtractReceiptData(mailbox[Message].body)
    /\ globalScope' = GlobalsAfterExtract(mailbox[Message].body, globalScope)
    /\ parsed' = parsed \cup {[message |-> Message, data |-> data']}
    /\ IF data'.isNull
       THEN /\ errorLog' = errorLog \cup
                    {[message |-> Message, at |-> "extractReceiptData"]}
            /\ cur' = cur + 1
            /\ bpc' = "message"
       ELSE /\ bpc' = "store"
            /\ UNCHANGED <<cur, errorLog>>
    /\ UNCHANGED <<mailbox, found, storeId, purchaseId, storesSheet,
                   purchasesSheet, priceLog, loads, marked, labelled>>
    /\ UNCHANGED parserVars

\* loadReceiptDataToSheet, line 209, into getStoreId, lines 224-250.  When
\* no row holds the address a row is appended, and the ID that comes back is
\* read from storesData, the rows as they were before the append.
GetStoreId ==
    /\ bpc = "store"
    /\ LET storesData == storesSheet
           existingStoreIndex ==
               ExistingStoreIndex(storesData, data.storeAddress.val)
       IN  IF existingStoreIndex = -1
           THEN /\ storesSheet' =
                       Append(storesSheet,
                              StoreRow(Len(storesSheet),
                                       data.storeAddress.val, Message))
                /\ storeId' = GetLastRowData(storesData).id
           ELSE /\ storeId' = storesData[existingStoreIndex + 2].id
                /\ UNCHANGED storesSheet
    /\ bpc' = "purchase"
    /\ UNCHANGED <<mailbox, found, cur, data, purchaseId, purchasesSheet,
                   priceLog, globalScope, errorLog, parsed, loads, marked,
                   labelled>>
    /\ UNCHANGED parserVars

\* line 210 into getPurchaseId, lines 261-274.  Past the if the name
\* purchasesSheet is not bound (it is a const of getPurchaseData): line 270
\* raises a ReferenceError before a row is appended, which the catch of
\* processMessage, lines 67-69, logs.
GetPurchaseId ==
    /\ bpc = "purchase"
    /\ LET id == FindMatchingPurchaseId(purchasesSheet, storeId,
                                        mailbox[Message].date)
       IN  IF TruthyNum(id)
           THEN /\ purchaseId' = id.val
                /\ bpc' = "lines"
                /\ UNCHANGED <<cur, errorLog>>
           ELSE /\ errorLog' = errorLog \cup
                        {[message |-> Message, at |-> "processMessage"]}
                /\ cur' = cur + 1
                /\ bpc' = "message"
                /\ UNCHANGED purchaseId
    /\ UNCHANGED <<mailbox, found, data, storeId, storesSheet,
                   purchasesSheet, priceLog, globalScope, parsed, loads,
                   marked, labelled>>
    /\ UNCHANGED parserVars

\* line 211 into loadLineItems, lines 315-334
LoadLineItems ==
    /\ bpc = "lines"
    /\ priceLog' = priceLog \o PriceLogRows(data.lineItems, purchaseId, Message)
    /\ loads' = loads \cup {[message |-> Message, storeId |-> storeId,
                             purchaseId |-> purchaseId]}
    /\ bpc' = "mark"
    /\ UNCHANGED <<mailbox, found, cur, data, storeId, purchaseId,
                   storesSheet, purchasesSheet, globalScope, errorLog,
                   parsed, marked, labelled>>
    /\ UNCHANGED parserVars

\* processMessage, lines 62-63: message.markRead()
MarkRead ==
    /\ bpc = "mark"
    /\ mailbox' = [mailbox EXCEPT ![Message].unread = FALSE]
    /\ marked' = marked \cup {Message}
    /\ cur' = cur + 1
    /\ bpc' = "message"
    /\ UNCHANGED <<found, data, storeId, purchaseId, storesSheet,
                   purchasesSheet, priceLog, globalScope, errorLog, parsed,
                   loads, labelled>>
    /\ UNCHANGED parserVars

\* the loops of processThreads and processThread are through, line 18
Finish ==
    /\ bpc = "message"
    /\ cur > Len(found)
    /\ bpc' = "finished"
    /\ UNCHANGED <<mailbox, found, cur, data, storeId, purchaseId,
                   storesSheet, purchasesSheet, priceLog, globalScope,
                   errorLog, parsed, loads, marked, labelled>>
    /\ UNCHANGED parserVars

NextBatch ==
    \/ Search
    \/ ProcessMessage
    \/ GetStoreId
    \/ GetPurchaseId
    \/ LoadLineItems
    \/ MarkRead
    \/ Finish

SpecBatch == InitBatch /\ [][NextBatch]_vars

(***************************************************************************)
(* C13.  Extraction is a pure function without hidden state: two calls on  *)
(* the same body return equal results whatever calls ran before or         *)
(* between them, and no call leaves behind a variable that outlives it and *)
(* is shared with the next call.  Stated as claimed; the assignments to    *)
(* the undeclared names storeAndPurchaseStringArray and                    *)
(* lineItemsFilteredArray bind them in the global scope.                   *)
(***************************************************************************)
C13_ExtractionLeavesNoSharedVariable ==
    /\ \A p, q \in parsed :
           mailbox[p.message].body = mailbox[q.message].body
               => p.data = q.data
    /\ globalScope.storeAndPurchaseStringArray.undef
    /\ globalScope.lineItemsFilteredArray.undef

(***************************************************************************)
(* Vocabulary of the run.                                                  *)
(***************************************************************************)
ParsedMessages == { p.message : p \in parsed }

LoadedMessages == { l.message : l \in loads }

FailedMessages == { e.message : e \in errorLog }

\* what extractReceiptData returned for message i
DataOf(i) == (CHOOSE p \in parsed : p.message = i).data

\* some row of some sheet was appended while message i was processed
WrittenFor(i) ==
    \/ \E r \in 1..Len(storesSheet) : storesSheet[r].by = i
    \/ \E r \in 1..Len(purchasesSheet) : purchasesSheet[r].by = i
    \/ \E r \in 1..Len(priceLog) : priceLog[r].by = i

(***************************************************************************)
(* C16.  When the extraction of a message's body raises an error, the      *)
(* error is caught and logged and the message is skipped: null comes back, *)
(* no row of any sheet is written for it and it is not marked read; the    *)
(* run goes on, so that when it ends every message of every thread found,  *)
(* those after the failing one included, has been given to the extraction. *)
(***************************************************************************)
C16_ExtractionErrorSkipsTheMessageOnly ==
    /\ \A p \in parsed :
           MonolithicExtract(mailbox[p.message].body).threw
               => /\ p.data.isNull
                  /\ [message |-> p.message, at |-> "extractReceiptData"]
                         \in errorLog
                  /\ ~WrittenFor(p.message)
                  /\ p.message \notin LoadedMessages \cup marked
    /\ bpc = "finished"
           => \A k \in 1..Len(found) : found[k] \in ParsedMessages

\* the run has ended; the first message found failed in the extraction and
\* the message after it was extracted, loaded and marked read
C16_Witness ==
    /\ bpc = "finished"
    /\ Len(found) = 2
    /\ MonolithicExtract(mailbox[found[1]].body).threw
    /\ found[1] \in FailedMessages
    /\ found[2] \in marked

(***************************************************************************)
(* C17.  A message is marked read only in the step that follows the return *)
(* of loadReceiptDataToSheet for it: its body was extracted to data, its   *)
(* line items are loaded and no error was logged for it.  A step that logs *)
(* an error for a message, of the extraction or of the loading, leaves the *)
(* message's unread flag as it was and does not mark it.                   *)
(***************************************************************************)
C17_MarkedReadOnlyAfterLoad ==
    [][/\ \A i \in 1..Len(mailbox) :
              ((mailbox[i].unread /\ ~mailbox'[i].unread)
                   \/ i \in marked' \ marked)
                  => /\ bpc = "mark"
                     /\ Message = i
                     /\ i \in ParsedMessages
                     /\ ~DataOf(i).isNull
                     /\ i \in LoadedMessages
                     /\ i \notin FailedMessages
       /\ \A e \in errorLog' \ errorLog :
              /\ mailbox'[e.message].unread = mailbox[e.message].unread
              /\ e.message \notin marked']_vars

\* one message was loaded and marked read, another failed and is unread
C17_Witness ==
    /\ \E i \in marked : ~mailbox[i].unread /\ i \in LoadedMessages
    /\ \E e \in errorLog :
           e.at = "processMessage" /\ mailbox[e.message].unread

\* the rows of the stores sheet appended while the message in work was
\* processed
AppendedStoreRows ==
    { r \in 2..Len(storesSheet) : storesSheet[r].by = Message }

(***************************************************************************)
(* C18.  getStoreId returns the ID of the store row that holds the         *)
(* receipt's address: the ID of the existing row when one matches, and,    *)
(* when none matches, the ID of the row it has just appended, which is the *)
(* ID of no row that was there before the call.  Stated as claimed; the ID *)
(* is read from the rows fetched before the append.                        *)
(***************************************************************************)
C18_StoreIdIsOfTheAddressRow ==
    bpc = "purchase"
        => /\ \E r \in 2..Len(storesSheet) :
                  /\ storesSheet[r].address = data.storeAddress.val
                  /\ storesSheet[r].id = storeId
           /\ AppendedStoreRows # {}
                  => \A q \in (1..Len(storesSheet)) \ AppendedStoreRows :
                         storesSheet[q].id # storeId

\* the sum of the prices of the items, a missing price counting nothing
RECURSIVE ReceiptTotal(_)
ReceiptTotal(items) ==
    IF items = <<>> THEN 0
    ELSE (IF Head(items).totalPrice.isNull THEN 0
          ELSE Head(items).totalPrice.val) + ReceiptTotal(Tail(items))

\* the row of the purchases sheet with the ID
PurchaseRowOf(id) ==
    purchasesSheet[CHOOSE r \in 2..Len(purchasesSheet) :
                       purchasesSheet[r].id = id]

(***************************************************************************)
(* C19.  Purchases are keyed by store, date and total amount: the purchase *)
(* row under which the items of a receipt are loaded has the receipt's     *)
(* store ID, date and total, and two receipts of the same store and date   *)
(* with different totals are loaded under two distinct purchase rows.      *)
(* Stated as claimed; findMatchingPurchaseId sets isMatchingPrice to true  *)
(* and the total is never passed.                                          *)
(***************************************************************************)
C19_PurchasesKeyedByStoreDateTotal ==
    /\ \A l \in loads :
           /\ PurchaseRowOf(l.purchaseId).storeId = l.storeId
           /\ PurchaseRowOf(l.purchaseId).date = mailbox[l.message].date
           /\ PurchaseRowOf(l.purchaseId).totalPrice =
                  Num(ReceiptTotal(DataOf(l.message).lineItems))
    /\ \A l, m \in loads :
           (/\ l.storeId = m.storeId
            /\ mailbox[l.message].date = mailbox[m.message].date
            /\ ReceiptTotal(DataOf(l.message).lineItems) #
                   ReceiptTotal(DataOf(m.message).lineItems))
               => l.purchaseId # m.purchaseId

(***************************************************************************)
(* C20.  When no purchase row matches, getPurchaseId appends exactly one   *)
(* row with the date and the store ID to the purchases sheet and returns   *)
(* the ID of that row, without an error.  Stated as claimed; the append is *)
(* made through the name purchasesSheet, which is not bound in             *)
(* getPurchaseId.                                                          *)
(***************************************************************************)
C20_NewPurchaseRowIsAppended ==
    [][(/\ bpc = "purchase"
        /\ \A r \in 2..Len(purchasesSheet) :
               \/ purchasesSheet[r].storeId # storeId
               \/ purchasesSheet[r].date # mailbox[Message].date)
          => /\ Len(purchasesSheet') = Len(purchasesSheet) + 1
             /\ SubSeq(purchasesSheet', 1, Len(purchasesSheet)) =
                    purchasesSheet
             /\ purchasesSheet'[Len(purchasesSheet')].date =
                    mailbox[Message].date
             /\ purchasesSheet'[Len(purchasesSheet')].storeId = storeId
             /\ purchaseId' = purchasesSheet'[Len(purchasesSheet')].id
             /\ bpc' = "lines"
             /\ errorLog' = errorLog]_vars

\* the body is well formed: the extraction returns data for it
WellFormed(body) == ~MonolithicExtract(body).threw

\* the rows of the price log appended while message i was processed
PriceLogRowsOf(i) == { r \in 1..Len(priceLog) : priceLog[r].by = i }

(***************************************************************************)
(* C21.  By the end of a run every unread message with a well-formed body  *)
(* has been marked read, with one price-log row appended for each of its   *)
(* extracted line items, also when its store and its purchase are not yet  *)
(* in the sheets.  Stated as claimed; a receipt whose purchase is not in   *)
(* the sheet ends in the ReferenceError of getPurchaseId and stays unread. *)
(***************************************************************************)
C21_WellFormedUnreadMessagesAreLoaded ==
    bpc = "finished"
        => \A i \in 1..Len(mailbox) :
               WellFormed(mailbox[i].body)
                   => /\ ~mailbox[i].unread
                      /\ i \in marked
                             => Cardinality(PriceLogRowsOf(i)) =
                                    Len(DataOf(i).lineItems)

(***************************************************************************)
(* C22.  A run processes unread messages only: a message that is read and  *)
(* has not been given to the extraction (so it was read when the run       *)
(* started) is neither parsed nor loaded by any step, also when its thread *)
(* holds another, unread message.  Stated as claimed; thread.getMessages() *)
(* gives every message of a found thread and processMessage does not test  *)
(* whether the message is unread.                                          *)
(***************************************************************************)
C22_ReadMessagesAreNotProcessed ==
    [][\A i \in 1..Len(mailbox) :
           (~mailbox[i].unread /\ i \notin ParsedMessages)
               => /\ i \notin { p.message : p \in parsed' }
                  /\ i \notin { l.message : l \in loads' }]_vars

(***************************************************************************)
(* C23.  Persisting is deduplicating: when a receipt has been loaded, a    *)
(* later message with the same extracted data and the same date (the store *)
(* name is the same for all) adds no row to the stores sheet, the          *)
(* purchases sheet or the price log.  Stated as claimed; loadLineItems     *)
(* appends its rows without looking at the price log.                      *)
(***************************************************************************)
C23_SecondLoadAddsNoRow ==
    \A i, j \in ParsedMessages :
        (/\ i < j
         /\ i \in LoadedMessages
         /\ DataOf(i) = DataOf(j)
         /\ mailbox[i].date = mailbox[j].date)
            => ~WrittenFor(j)

(***************************************************************************)
(* C24.  A divider line acts the same in every scanner state: the          *)
(* in-progress record is pushed when it has data (one of its fields is     *)
(* truthy, the test of lines 53 and 97), description, totalPrice and       *)
(* details are reset to null, and the scanner searches for a description   *)
(* with neither the price search nor the details search active.            *)
(***************************************************************************)
C24_DividerActsTheSameInEveryState ==
    [][(AtDivider /\ idx' = idx + 1)
          => /\ lineItems' =
                    IF \/ TruthyStr(currentLineItem.description)
                       \/ TruthyNum(currentLineItem.totalPrice)
                       \/ TruthyStr(currentLineItem.details)
                    THEN Append(lineItems, currentLineItem)
                    ELSE lineItems
             /\ currentLineItem' = EmptyItem
             /\ searchItem'
             /\ ~searchPrice'
             /\ ~searchDetail']_vars

\* a divider has just been read while the details were searched for: the
\* record with description and price is in the output, the scanner is reset
C24_Witness ==
    /\ pc = "scan"
    /\ idx > 0
    /\ HasTag(lineItemsFilteredArray[idx], HR)
    /\ lineItems # <<>>
    /\ ~lineItems[Len(lineItems)].totalPrice.isNull
    /\ lineItems[Len(lineItems)].details.isNull
    /\ currentLineItem = EmptyItem
    /\ searchItem /\ ~searchPrice /\ ~searchDetail

\* the loop reads a line that is not a divider
ReadsNonDivider ==
    /\ pc = "scan"
    /\ idx < Len(lineItemsFilteredArray)
    /\ ~HasTag(lineItemsFilteredArray[idx + 1], HR)
    /\ idx' = idx + 1

(***************************************************************************)
(* C25.  Once details has been set for a record, every later line before   *)
(* the next divider is ignored: such a line changes neither the record,    *)
(* nor the flags, nor the output.  The first line taken for a field wins:  *)
(* a field of the record that is not null is never changed by a line that  *)
(* is not a divider.                                                       *)
(***************************************************************************)
C25_FirstMatchWins ==
    [][ReadsNonDivider
          => /\ ~currentLineItem.details.isNull => UNCHANGED scanVars
             /\ ~currentLineItem.description.isNull
                    => currentLineItem'.description =
                           currentLineItem.description
             /\ ~currentLineItem.totalPrice.isNull
                    => currentLineItem'.totalPrice =
                           currentLineItem.totalPrice
             /\ ~currentLineItem.details.isNull
                    => currentLineItem'.details = currentLineItem.details]_vars

\* the record is complete and two more lines were read after its details,
\* the last a details line with another text: the record is as it was
C25_Witness ==
    /\ pc = "scan"
    /\ idx = 6
    /\ lineItemsFilteredArray[idx] = emptyDetailsLine
    /\ currentLineItem.details = Str(Text(<<"L">>))
    /\ ~currentLineItem.description.isNull
    /\ ~currentLineItem.totalPrice.isNull
    /\ lineItems = <<>>

\* the line about to be read matches the pattern of a search that is active
MatchesExpectedPattern ==
    \/ searchItem /\ ItemMatch(lineItemsFilteredArray[idx + 1])
    \/ searchPrice /\ PriceMatch(lineItemsFilteredArray[idx + 1])
    \/ searchDetail /\ DetailMatch(lineItemsFilteredArray[idx + 1])

(***************************************************************************)
(* C26.  A filtered line that is not a divider and does not match the      *)
(* pattern expected in the current state, a field line out of order        *)
(* included, raises no error and leaves the flags, the in-progress record  *)
(* and the output unchanged: the loop goes on with the next line.          *)
(***************************************************************************)
C26_UnexpectedLineChangesNothing ==
    [][(/\ pc = "scan"
        /\ idx < Len(lineItemsFilteredArray)
        /\ ~HasTag(lineItemsFilteredArray[idx + 1], HR)
        /\ ~MatchesExpectedPattern)
          => /\ pc' = "scan"
             /\ idx' = idx + 1
             /\ UNCHANGED scanVars]_vars

\* a price line was read right after a divider, while a description was
\* searched for: the record is still empty and the search is as it was
C26_Witness ==
    /\ pc = "scan"
    /\ idx = 2
    /\ HasTag(lineItemsFilteredArray[1], HR)
    /\ lineItemsFilteredArray[2] = priceLine
    /\ searchItem /\ ~searchPrice /\ ~searchDetail
    /\ currentLineItem = EmptyItem
    /\ lineItems = <<>>

(***************************************************************************)
(* Vocabulary of the line filter.                                          *)
(***************************************************************************)
\* the line filter has just run: the loop has read no line yet
Filtered == pc = "scan" /\ idx = 0

\* the lines of lineItemsRaw
RawLines == Split(segments.lineItemsRaw.v, NL)

\* '', '<tr>', '</tr>', '<td>&nbsp;</td>', '<td></td>'
StructuralRows ==
    { <<>>, <<E("<tr>")>>, <<E("</tr>")>>, <<E("<td>&nbsp;</td>")>>,
      <<E("<td></td>")>> }

(***************************************************************************)
(* C27.  The line filter removes exactly the lines whose trimmed content   *)
(* is '', '<tr>', '</tr>', '<td>&nbsp;</td>' or '<td></td>': the filtered  *)
(* array is the other lines, each as it was in the raw text and in their   *)
(* order there.  No divider line and no field line is removed.             *)
(***************************************************************************)
C27_FilterRemovesStructuralRowsOnly ==
    Filtered
        => LET raw  == RawLines
               kept == { i \in 1..Len(raw) :
                             Trim(raw[i]) \notin StructuralRows }
               place(k) ==
                   CHOOSE i \in kept :
                       Cardinality({ j \in kept : j <= i }) = k
           IN  /\ Len(lineItemsFilteredArray) = Cardinality(kept)
               /\ \A k \in 1..Len(lineItemsFilteredArray) :
                      lineItemsFilteredArray[k] = raw[place(k)]
               /\ \A i \in 1..Len(raw) :
                      (\/ DividerMatch(raw[i])
                       \/ ItemMatch(raw[i])
                       \/ PriceMatch(raw[i])
                       \/ DetailMatch(raw[i]))
                          => i \in kept

\* an indented <tr> row and the empty rows around it were removed, the
\* divider line after it was kept
C27_Witness ==
    /\ Filtered
    /\ Len(RawLines) = 4
    /\ RawLines[2] = <<E(BLANK), E("<tr>")>>
    /\ lineItemsFilteredArray = <<dividerLine>>

(***************************************************************************)
(* Vocabulary of the scanner states.                                       *)
(***************************************************************************)
\* the loop is running or has run
Scanning == pc \in {"scan", "done"}

\* AwaitDivider: none of searchItem, searchPrice, searchDetail is true
AwaitDivider == ~searchItem /\ ~searchPrice /\ ~searchDetail

\* one of the lines read so far is a divider
DividerSeen == \E k \in 1..idx : HasTag(lineItemsFilteredArray[k], HR)

C29_OutputOnlyGrowsAtItsEnd ==
    [][pc = "scan"
          => /\ \/ lineItems' = lineItems
                \/ lineItems' = Append(lineItems, currentLineItem)
             /\ (HasData(currentLineItem) /\ (AtDivider \/ AtEndOfInput))
                    => lineItems' = Append(lineItems, currentLineItem)
             /\ pc' = "done" => result'.lineItems = lineItems']_vars

\* two blocks with the same description have been returned as two items
C29_Witness ==
    /\ pc = "done"
    /\ lineItemsFilteredArray =
           <<dividerLine, descriptionLine, dividerLine, descriptionLine>>
    /\ Len(result.lineItems) = 2
    /\ result.lineItems[1] = result.lineItems[2]

FilledAsPrefix(item) ==
    /\ ~item.totalPrice.isNull => ~item.description.isNull
    /\ ~item.details.isNull => ~item.totalPrice.isNull

(***************************************************************************)
(* C31.  In the in-progress record and in every emitted line item the      *)
(* fields are filled as a prefix of (description, totalPrice, details):    *)
(* totalPrice is non-null only if description is non-null, and details is  *)
(* non-null only if totalPrice is non-null.                                *)
(***************************************************************************)
C31_FieldsFilledAsPrefix ==
    /\ FilledAsPrefix(currentLineItem)
    /\ \A i \in 1..Len(lineItems) : FilledAsPrefix(lineItems[i])
    /\ \A i \in 1..Len(result.lineItems) : FilledAsPrefix(result.lineItems[i])

\* a details line read while the price was searched for filled nothing;
\* the item was returned with its description and its price only
C31_Witness ==
    /\ pc = "done"
    /\ lineItemsFilteredArray =
           <<dividerLine, descriptionLine, detailsLine, priceLine>>
    /\ Len(result.lineItems) = 1
    /\ ~result.lineItems[1].description.isNull
    /\ ~result.lineItems[1].totalPrice.isNull
    /\ result.lineItems[1].details.isNull

(***************************************************************************)
(* Vocabulary of the flags.                                                *)
(***************************************************************************)
AtMostOneFlag ==
    /\ ~(searchItem /\ searchPrice)
    /\ ~(searchItem /\ searchDetail)
    /\ ~(searchPrice /\ searchDetail)

\* the line about to be read matches the description pattern and the
\* details pattern
ReadsDescriptionAndDetailsLine ==
    /\ ReadsNonDivider
    /\ ItemMatch(lineItemsFilteredArray[idx + 1])
    /\ DetailMatch(lineItemsFilteredArray[idx + 1])

(***************************************************************************)
(* C32.  At every point of the scan at most one of searchItem,             *)
(* searchPrice, searchDetail is true, and a single filtered line sets at   *)
(* most one field of the in-progress record: a line that matches both the  *)
(* description and the details pattern fills the description when          *)
(* searchItem is set, the details when searchDetail is set, and nothing    *)
(* otherwise.                                                              *)
(***************************************************************************)
C32_OneFlagAndOneFieldPerLine ==
    [][/\ AtMostOneFlag
       /\ AtMostOneFlag'
       /\ ReadsNonDivider
              => Cardinality(
                     { f \in {"description", "totalPrice", "details"} :
                           currentLineItem'[f] # currentLineItem[f] }) <= 1
       /\ ReadsDescriptionAndDetailsLine
              => /\ searchItem
                     => /\ currentLineItem'.totalPrice = currentLineItem.totalPrice
                        /\ currentLineItem'.details = currentLineItem.details
                 /\ searchDetail
                     => /\ currentLineItem'.description = currentLineItem.description
                        /\ currentLineItem'.totalPrice = currentLineItem.totalPrice
                 /\ ~(searchItem \/ searchDetail)
                     => currentLineItem' = currentLineItem]_vars

\* a details line, which also matches the description pattern, was read
\* first after a divider: it filled the description and nothing else
C32_Witness ==
    /\ pc = "scan"
    /\ idx = 2
    /\ lineItemsFilteredArray[1] = dividerLine
    /\ lineItemsFilteredArray[2] = detailsLine
    /\ ItemMatch(detailsLine)
    /\ DetailMatch(detailsLine)
    /\ ~currentLineItem.description.isNull
    /\ currentLineItem.totalPrice.isNull
    /\ currentLineItem.details.isNull
    /\ searchPrice
    /\ ~searchItem
    /\ ~searchDetail

=============================================================================
